---- MODULE Spec2Model ----
(***************************************************************************)
(* Witness generation of chiquito (src/src/wit_gen.rs): StepInstance,     *)
(* TraceWitness and its Display, TraceContext, TraceGenerator and          *)
(* FixedGenContext.                                                        *)
(*                                                                         *)
(* A HashMap is modelled as a set of entries [k |-> key, v |-> value], so  *)
(* that "one entry per key" is a property of the operations and not of the *)
(* representation.  A Vec is a sequence; the element at usize index i is   *)
(* the (i+1)-th element of the sequence.                                   *)
(***************************************************************************)
EXTENDS Integers, Sequences, FiniteSets, TLC

\* ------------------------------------------------------------------ bounds
MaxSteps == 3      \* largest num_steps a TraceContext is constructed with
MaxFixedSteps == 2 \* largest num_steps a FixedGenContext is constructed with
MaxRows == 4       \* rows explicit add calls may pile up (may exceed num_steps)
MaxVal == 1        \* field values are 0..MaxVal
MaxAssigns == 3    \* direct StepInstance.assign calls on one instance
MaxFixedCalls == 3 \* successful FixedGenContext.assign calls on one context
MaxKindCalls == 2  \* assign calls per context when every kind of signal is passed
MaxShown == 2      \* rows put after the padded rows of a witness that is displayed

\* ------------------------------------------------------------- data types
\* F::ZERO, the additive identity of the field
ZERO == 0

Values == 0..MaxVal

\* the kinds of Queriable that assign tells apart
FixedKinds == {"Fixed", "Halo2FixedQuery"}

NonFixedKinds == {"Internal", "Forward", "Shared", "StepTypeNext", "Halo2AdviceQuery"}

\* signal references: one per kind, and a second fixed signal
Queriables ==
  {[kind |-> k, id |-> 1] : k \in FixedKinds \cup NonFixedKinds}
    \cup {[kind |-> "Fixed", id |-> 2]}

\* --------------------------------------------------------------- HashMap
Keys(m) == {e.k : e \in m}

ContainsKey(m, k) == \E e \in m : e.k = k

Get(m, k) == (CHOOSE e \in m : e.k = k).v

\* HashMap::insert: the entry of an equal key is replaced
MapInsert(m, k, v) == {e \in m : e.k # k} \cup {[k |-> k, v |-> v]}

\* ---------------------------------------------------------- StepInstance
StepInstanceNew(step_type_uuid) ==
  [step_type_uuid |-> step_type_uuid, assignments |-> {}]

\* an assign that keeps the value already stored for the key
StepAssignKeepFirst(inst, lhs, rhs) ==
  IF ContainsKey(inst.assignments, lhs) THEN inst
  ELSE [inst EXCEPT !.assignments = MapInsert(@, lhs, rhs)]

StepAssign(inst, lhs, rhs) ==
  [inst EXCEPT !.assignments = MapInsert(@, lhs, rhs)]

\* ------------------------------------------------------- step handlers
\* A StepTypeWGHandler is a uuid and a callback wg(&mut StepInstance, args).
\* The callback is the caller's; these are the callbacks the model drives
\* the context with: one that assigns nothing (the tests' dummy), one that
\* assigns one signal, one that assigns two signals and reassigns the first.
QA == [kind |-> "Internal", id |-> 1]
QB == [kind |-> "Forward", id |-> 1]

Handlers ==
  {[uuid |-> 9, wg |-> "nop"], [uuid |-> 10, wg |-> "one"], [uuid |-> 11, wg |-> "two"]}

Args == 0..1

RunWG(step, inst, args) ==
  CASE step.wg = "nop" -> inst
    [] step.wg = "one" -> StepAssign(inst, QA, args)
    [] step.wg = "two" ->
         StepAssign(StepAssign(StepAssign(inst, QA, args), QB, args), QA, 1 - args)

\* args_fn: impl Fn() -> Args.  A thunk may return the same value on every
\* call or carry per-row state; i is the number of calls made before.
Thunks == {[fn |-> "const", v |-> 0], [fn |-> "const", v |-> 1], [fn |-> "alternate", v |-> 0]}

ThunkValue(args_fn, i) ==
  IF args_fn.fn = "const" THEN args_fn.v ELSE i % 2

\* ---------------------------------------------------------- TraceContext
\* an add that builds the row from StepInstance::default() (uuid 0)
AddRowDefaultUuid(step_instances, step, args) ==
  Append(step_instances, RunWG(step, StepInstanceNew(0), args))

\* an add that puts the new row in front (insert(0, ..) for push)
AddRowFront(step_instances, step, args) ==
  <<RunWG(step, StepInstanceNew(step.uuid), args)>> \o step_instances

\* the rows after add(step, args)
AddRow(step_instances, step, args) ==
  Append(step_instances, RunWG(step, StepInstanceNew(step.uuid), args))

\* The padding loop.  Every iteration calls args_fn once and add once (and
\* add calls the callback once); i counts the iterations made so far.  The
\* result is the rows and the number of iterations.
RECURSIVE PadRows(_, _, _, _, _)
RECURSIVE PadRowsLe(_, _, _, _, _)
RECURSIVE PadRowsDoWhile(_, _, _, _, _)

\* a padding loop with <= in place of <
PadRowsLe(step_instances, n, step, args_fn, i) ==
  IF Len(step_instances) <= n
    THEN PadRowsLe(AddRow(step_instances, step, ThunkValue(args_fn, i)), n, step, args_fn, i + 1)
    ELSE [rows |-> step_instances, calls |-> i]

\* a padding with `if` in place of `while`
PadRowsOnce(step_instances, n, step, args_fn, i) ==
  IF Len(step_instances) < n
    THEN [rows |-> AddRow(step_instances, step, ThunkValue(args_fn, i)), calls |-> i + 1]
    ELSE [rows |-> step_instances, calls |-> i]

\* a padding that tests the condition after the body (do-while)
PadRowsDoWhile(step_instances, n, step, args_fn, i) ==
  LET added == AddRow(step_instances, step, ThunkValue(args_fn, i)) IN
  IF Len(added) < n
    THEN PadRowsDoWhile(added, n, step, args_fn, i + 1)
    ELSE [rows |-> added, calls |-> i + 1]

PadRows(step_instances, n, step, args_fn, i) ==
  IF Len(step_instances) < n
    THEN PadRows(AddRow(step_instances, step, ThunkValue(args_fn, i)), n, step, args_fn, i + 1)
    ELSE [rows |-> step_instances, calls |-> i]

\* ------------------------------------------------------- FixedGenContext
\* a kind test that also lets imported advice columns through
IsFixedOrHalo2(q) == q.kind \in FixedKinds \cup {"Halo2AdviceQuery"}

\* a kind test that knows the Fixed variant only
IsFixedSignalOnly(q) == q.kind = "Fixed"

is_fixed_queriable(q) == q.kind \in FixedKinds

\* vec![F::ZERO; n]
ZeroVec(n) == [i \in 1..n |-> ZERO]

\* Vec::insert(offset, rhs): shifts the tail instead of overwriting
VecInsertAt(vec, offset, rhs) ==
  SubSeq(vec, 1, offset) \o <<rhs>> \o SubSeq(vec, offset + 1, Len(vec))

\* a store that fills the whole vector with rhs
VecFill(vec, offset, rhs) == [i \in 1..Len(vec) |-> rhs]

\* vec[offset] = rhs, for an offset in range
VecSet(vec, offset, rhs) == [vec EXCEPT ![offset + 1] = rhs]

\* the index check of vec[offset]
InBounds(vec, offset) == offset < Len(vec)

Result(m, how) == [assignments |-> m, outcome |-> how]

\* an assign that writes first and tests the kind afterwards
FixedAssignCheckLast(m, n, offset, lhs, rhs) ==
  LET vec == IF ContainsKey(m, lhs) THEN Get(m, lhs) ELSE ZeroVec(n) IN
  IF ~InBounds(vec, offset) THEN Result(m, "panic_bounds")
  ELSE IF ~is_fixed_queriable(lhs)
    THEN Result(MapInsert(m, lhs, VecSet(vec, offset, rhs)), "panic_non_fixed")
    ELSE Result(MapInsert(m, lhs, VecSet(vec, offset, rhs)), "ok")

\* an assign that inserts the zero-filled vector before it indexes it
\* (entry(lhs).or_insert_with(..)[offset] = rhs)
FixedAssignInsertFirst(m, n, offset, lhs, rhs) ==
  IF ~is_fixed_queriable(lhs) THEN Result(m, "panic_non_fixed")
  ELSE
    LET m1 == IF ContainsKey(m, lhs) THEN m ELSE MapInsert(m, lhs, ZeroVec(n)) IN
    IF InBounds(Get(m1, lhs), offset)
      THEN Result(MapInsert(m1, lhs, VecSet(Get(m1, lhs), offset, rhs)), "ok")
      ELSE Result(m1, "panic_bounds")

\* an assign that allocates a new zero-filled vector on every call
FixedAssignRealloc(m, n, offset, lhs, rhs) ==
  IF ~is_fixed_queriable(lhs) THEN Result(m, "panic_non_fixed")
  ELSE
    LET fresh == ZeroVec(n) IN
    IF InBounds(fresh, offset)
      THEN Result(MapInsert(m, lhs, VecSet(fresh, offset, rhs)), "ok")
      ELSE Result(m, "panic_bounds")

\* assign(offset, lhs, rhs) on the mapping m of a context with num_steps n:
\* the mapping it leaves and how it ends
FixedAssign(m, n, offset, lhs, rhs) ==
  IF ~is_fixed_queriable(lhs) THEN Result(m, "panic_non_fixed")
  ELSE IF ContainsKey(m, lhs)
    THEN
      IF InBounds(Get(m, lhs), offset)
        THEN Result(MapInsert(m, lhs, VecSet(Get(m, lhs), offset, rhs)), "ok")
        ELSE Result(m, "panic_bounds")
    ELSE
      LET fresh == ZeroVec(n) IN
      IF InBounds(fresh, offset)
        THEN Result(MapInsert(m, lhs, VecSet(fresh, offset, rhs)), "ok")
        ELSE Result(m, "panic_bounds")

\* ------------------------------------------------------------------ state
VARIABLES
  num_steps,     \* TraceContext.num_steps
  witness,       \* TraceContext.witness.step_instances
  ctx,           \* "Building", or "Finalized" once get_witness consumed it
  returned,      \* the TraceWitness get_witness returned (<<>> before)
  lastOp,        \* the last call on the context
  before,        \* witness at the start of the last call
  makers,        \* per row, the uuid of the handler passed to the call that made it
  wgCalls,       \* callback invocations during the last call
  thunkCalls     \* args_fn invocations during the last call

traceVars ==
  <<num_steps, witness, ctx, returned, lastOp, before, makers, wgCalls, thunkCalls>>

VARIABLES
  fixed_num_steps,  \* FixedGenContext.num_steps
  assignments,      \* FixedGenContext.assignments: entries [k |-> Queriable, v |-> Vec<F>]
  fixedCall,        \* the last assign call: [offset, lhs, rhs] (meaningful once outcome # "none")
  outcome,          \* how it ended: "ok", "panic_non_fixed", "panic_bounds"; "none" before
  fixedBefore,      \* assignments at the start of the last assign call
  fixedLog,         \* the assign calls that returned, oldest first
  fixedCtx,         \* "Building", or "Finalized" once get_assignments consumed it
  fixedReturned     \* the FixedAssignment get_assignments returned ({} before)

fixedVars ==
  <<fixed_num_steps, assignments, fixedCall, outcome, fixedBefore, fixedLog,
    fixedCtx, fixedReturned>>

VARIABLES
  instance,      \* a StepInstance under direct assign calls
  assignLog      \* the assign calls made on it, oldest first: [lhs, rhs]

stepVars == <<instance, assignLog>>

VARIABLES
  pad_pc,        \* where a padding call stands: "idle", "test", "thunk", "add", "done"
  padStep,       \* the handler the padding call was given
  padFn,         \* the args_fn the padding call was given
  padArg,        \* the value the last (args_fn)() returned
  thunkLog       \* the values args_fn returned during the padding call, in order

padVars == <<pad_pc, padStep, padFn, padArg, thunkLog>>

VARIABLES
  gens,          \* the TraceGenerators: <<original>>, or <<original, clone>>
  genOrigin,     \* how the original was made: "default" or "new"
  runs,          \* per generator, its generate call: state, args, the trace function's
                 \* remaining context calls, the rows those calls appended, the result
  genCtx,        \* per generate call, its local `ctx`
  overlap        \* a generate call was entered while the other one was running

genVars == <<gens, genOrigin, runs, genCtx, overlap>>

VARIABLES
  shown,         \* the TraceWitness handed to fmt
  rendered,      \* the lines fmt wrote (<<>> before)
  formatted      \* fmt has run

displayVars == <<shown, rendered, formatted>>

restVars == <<padVars, genVars, displayVars>>

vars == <<traceVars, fixedVars, stepVars, restVars>>

\* a getter that borrows (&self) and leaves the context usable
AfterGetBorrowed == "Building"

\* get_witness(self) and get_assignments(self) take the context by value:
\* the context is moved out of and cannot be named again
AfterGet == "Finalized"

\* TraceContext::new(num_steps)
InitTrace ==
  /\ num_steps \in 0..MaxSteps
  /\ witness = <<>>
  /\ ctx = "Building"
  /\ returned = <<>>
  /\ lastOp = "new"
  /\ before = <<>>
  /\ makers = <<>>
  /\ wgCalls = 0
  /\ thunkCalls = 0

\* FixedGenContext::new(num_steps)
InitFixed ==
  /\ fixed_num_steps \in 0..MaxFixedSteps
  /\ assignments = {}
  /\ fixedCall = [offset |-> 0, lhs |-> QA, rhs |-> ZERO]
  /\ outcome = "none"
  /\ fixedBefore = {}
  /\ fixedLog = <<>>
  /\ fixedCtx = "Building"
  /\ fixedReturned = {}

\* StepInstance::new(step_type_uuid)
InitStep ==
  /\ instance \in {StepInstanceNew(h.uuid) : h \in Handlers}
  /\ assignLog = <<>>

\* the components a specification does not drive: constructed and left alone
IdleTrace ==
  /\ num_steps = 0
  /\ witness = <<>>
  /\ ctx = "Building"
  /\ returned = <<>>
  /\ lastOp = "new"
  /\ before = <<>>
  /\ makers = <<>>
  /\ wgCalls = 0
  /\ thunkCalls = 0

IdleFixed ==
  /\ fixed_num_steps = 0
  /\ assignments = {}
  /\ fixedCall = [offset |-> 0, lhs |-> QA, rhs |-> ZERO]
  /\ outcome = "none"
  /\ fixedBefore = {}
  /\ fixedLog = <<>>
  /\ fixedCtx = "Building"
  /\ fixedReturned = {}

IdleStep ==
  /\ instance = StepInstanceNew(0)
  /\ assignLog = <<>>

NoHandler == [uuid |-> 0, wg |-> "nop"]

IdlePad ==
  /\ pad_pc = "idle"
  /\ padStep = NoHandler
  /\ padFn = [fn |-> "const", v |-> 0]
  /\ padArg = 0
  /\ thunkLog = <<>>

\* TraceContext::new(num_steps), as the local of a generate call
TraceContextNew(n) == [step_instances |-> <<>>, num_steps |-> n]

\* a default generator whose closure adds rows
GeneratorDefaultAdds == [trace |-> "adds", num_steps |-> 0]

\* impl Default for TraceGenerator: a trace that does nothing, zero steps
GeneratorDefault == [trace |-> "nop", num_steps |-> 0]

IdleRun == [state |-> "idle", args |-> 0, ops |-> <<>>, appended |-> <<>>, result |-> <<>>]

Runs == 1..2

IdleGen ==
  /\ gens = <<GeneratorDefault>>
  /\ genOrigin = "default"
  /\ runs = [r \in Runs |-> IdleRun]
  /\ genCtx = [r \in Runs |-> TraceContextNew(0)]
  /\ overlap = FALSE

IdleDisplay ==
  /\ shown = <<>>
  /\ rendered = <<>>
  /\ formatted = FALSE

IdleRest == IdlePad /\ IdleGen /\ IdleDisplay

Init == InitTrace /\ IdleFixed /\ IdleStep /\ IdleRest

Replicate(x, n) == [i \in 1..n |-> x]

\* ctx.add(step, args)
Add(step, args) ==
  /\ ctx = "Building"
  /\ Len(witness) < MaxRows
  /\ witness' = AddRow(witness, step, args)
  /\ before' = witness
  /\ lastOp' = "add"
  /\ makers' = Append(makers, step.uuid)
  /\ wgCalls' = 1
  /\ thunkCalls' = 0
  /\ UNCHANGED <<num_steps, ctx, returned, fixedVars, stepVars, restVars>>

\* ctx.padding(step, args_fn)
Padding(step, args_fn) ==
  LET r == PadRows(witness, num_steps, step, args_fn, 0) IN
  /\ ctx = "Building"
  /\ witness' = r.rows
  /\ before' = witness
  /\ lastOp' = "padding"
  /\ makers' = makers \o Replicate(step.uuid, r.calls)
  /\ wgCalls' = r.calls
  /\ thunkCalls' = r.calls
  /\ UNCHANGED <<num_steps, ctx, returned, fixedVars, stepVars, restVars>>

\* ctx.get_witness(): consumes the context and hands the witness out
GetWitness ==
  /\ ctx = "Building"
  /\ ctx' = AfterGet
  /\ returned' = witness
  /\ before' = witness
  /\ lastOp' = "get_witness"
  /\ wgCalls' = 0
  /\ thunkCalls' = 0
  /\ UNCHANGED <<num_steps, witness, makers, fixedVars, stepVars, restVars>>

Next ==
  \/ \E step \in Handlers, args \in Args : Add(step, args)
  \/ \E step \in Handlers, args_fn \in Thunks : Padding(step, args_fn)
  \/ GetWitness

Spec == Init /\ [][Next]_vars

\* ------------------------------------------ padding, one step at a time
\* a loop condition with <= in place of <
PadCondLe(len, n) == len <= n

\* while self.witness.step_instances.len() < self.num_steps
PadCond(len, n) == len < n

\* a padding that calls args_fn in its first iteration and reuses the value
InvokesThunkFirstOnly(iteration) == iteration = 0

\* self.add(step, (args_fn)()): every iteration evaluates (args_fn)()
InvokesThunk(iteration) == TRUE

\* ctx.padding(step, args_fn) is entered
PadBegin(step, args_fn) ==
  /\ pad_pc = "idle"
  /\ ctx = "Building"
  /\ pad_pc' = "test"
  /\ padStep' = step
  /\ padFn' = args_fn
  /\ thunkLog' = <<>>
  /\ before' = witness
  /\ lastOp' = "padding"
  /\ wgCalls' = 0
  /\ thunkCalls' = 0
  /\ UNCHANGED <<num_steps, witness, ctx, returned, makers, padArg,
                 fixedVars, stepVars, genVars, displayVars>>

\* the while condition is evaluated
PadTest ==
  /\ pad_pc = "test"
  /\ pad_pc' = IF PadCond(Len(witness), num_steps) THEN "thunk" ELSE "done"
  /\ UNCHANGED <<traceVars, padStep, padFn, padArg, thunkLog, fixedVars, stepVars, genVars, displayVars>>

\* the argument of add is evaluated: (args_fn)()
PadThunk ==
  /\ pad_pc = "thunk"
  /\ pad_pc' = "add"
  /\ IF InvokesThunk(wgCalls)
       THEN /\ padArg' = ThunkValue(padFn, thunkCalls)
            /\ thunkLog' = Append(thunkLog, ThunkValue(padFn, thunkCalls))
            /\ thunkCalls' = thunkCalls + 1
       ELSE UNCHANGED <<padArg, thunkLog, thunkCalls>>
  /\ UNCHANGED <<num_steps, witness, ctx, returned, lastOp, before, makers, wgCalls,
                 padStep, padFn, fixedVars, stepVars, genVars, displayVars>>

\* self.add(step, <the value>) runs and the loop goes back to its condition
PadAdd ==
  /\ pad_pc = "add"
  /\ pad_pc' = "test"
  /\ witness' = AddRow(witness, padStep, padArg)
  /\ makers' = Append(makers, padStep.uuid)
  /\ wgCalls' = wgCalls + 1
  /\ UNCHANGED <<num_steps, ctx, returned, lastOp, before, thunkCalls,
                 padStep, padFn, padArg, thunkLog, fixedVars, stepVars, genVars, displayVars>>

PadLoop == PadTest \/ PadThunk \/ PadAdd

\* explicit add calls, then one padding call taken step by step
NextPad ==
  \/ \E step \in Handlers, args \in Args : pad_pc = "idle" /\ Add(step, args)
  \/ \E step \in Handlers, args_fn \in Thunks : PadBegin(step, args_fn)
  \/ PadTest
  \/ PadThunk
  \/ PadAdd

\* the code is synchronous: a padding call that was entered keeps running
SpecPad == Init /\ [][NextPad]_vars /\ WF_vars(PadLoop)

\* --------------------------------------------------------- TraceGenerator
\* The bound trace functions the model drives generate with; a trace
\* function is the caller's closure over (ctx, args).  "nop" is the default
\* generator's closure; the others call add and padding on the context.
TraceFns == {"nop", "add_pad", "adds", "pad_alt"}

HNop == [uuid |-> 9, wg |-> "nop"]
HOne == [uuid |-> 10, wg |-> "one"]
HTwo == [uuid |-> 11, wg |-> "two"]

\* the context calls trace function `trace` makes when called with args
TraceOps(trace, args) ==
  CASE trace = "nop" -> <<>>
    [] trace = "add_pad" ->
         <<[op |-> "add", step |-> HOne, args |-> args, fn |-> [fn |-> "const", v |-> 0]],
           [op |-> "padding", step |-> HNop, args |-> 0, fn |-> [fn |-> "const", v |-> 0]]>>
    [] trace = "adds" ->
         <<[op |-> "add", step |-> HTwo, args |-> args, fn |-> [fn |-> "const", v |-> 0]],
           [op |-> "add", step |-> HOne, args |-> 1 - args, fn |-> [fn |-> "const", v |-> 0]]>>
    [] trace = "pad_alt" ->
         <<[op |-> "padding", step |-> HOne, args |-> 0, fn |-> [fn |-> "alternate", v |-> 0]],
           [op |-> "add", step |-> HTwo, args |-> args, fn |-> [fn |-> "const", v |-> 0]]>>

\* TraceGenerator::new(trace, num_steps)
GeneratorNew(trace, n) == [trace |-> trace, num_steps |-> n]

\* impl Clone: the Rc of the trace is cloned, num_steps is copied
GeneratorClone(g) == [trace |-> g.trace, num_steps |-> g.num_steps]

\* one add or padding call of the trace function on the context
ApplyOp(c, o) ==
  IF o.op = "add"
    THEN [c EXCEPT !.step_instances = AddRow(@, o.step, o.args)]
    ELSE [c EXCEPT !.step_instances = PadRows(@, c.num_steps, o.step, o.fn, 0).rows]

\* a generate that keeps its context in one place shared by all calls
CtxSlotShared(r) == 1

\* let mut ctx = TraceContext::new(..): the context is a local of the call
CtxSlot(r) == r

\* a generate that cuts the witness down to num_steps rows
GenerateResultCut(c) ==
  SubSeq(c.step_instances, 1,
         IF Len(c.step_instances) < c.num_steps THEN Len(c.step_instances) ELSE c.num_steps)

\* ctx.get_witness(), the value generate returns
GenerateResult(c) == c.step_instances

\* generator.clone()
GenClone ==
  /\ Len(gens) = 1
  /\ gens' = Append(gens, GeneratorClone(gens[1]))
  /\ UNCHANGED <<genOrigin, runs, genCtx, overlap,
                 traceVars, fixedVars, stepVars, padVars, displayVars>>

\* gens[r].generate(args) is entered: the context is made and the trace
\* function is called
GenBegin(r, args) ==
  /\ r <= Len(gens)
  /\ runs[r].state # "running"
  /\ runs' = [runs EXCEPT ![r] = [state |-> "running", args |-> args,
                                   ops |-> TraceOps(gens[r].trace, args),
                                   appended |-> <<>>, result |-> <<>>]]
  /\ genCtx' = [genCtx EXCEPT ![CtxSlot(r)] = TraceContextNew(gens[r].num_steps)]
  /\ overlap' = (overlap \/ \E o \in Runs : o # r /\ runs[o].state = "running")
  /\ UNCHANGED <<gens, genOrigin, traceVars, fixedVars, stepVars, padVars, displayVars>>

\* the trace function makes its next call on the context
GenOp(r) ==
  /\ runs[r].state = "running"
  /\ runs[r].ops # <<>>
  /\ LET c == genCtx[CtxSlot(r)]
         c1 == ApplyOp(c, Head(runs[r].ops))
     IN /\ genCtx' = [genCtx EXCEPT ![CtxSlot(r)] = c1]
        /\ runs' = [runs EXCEPT ![r].ops = Tail(@),
                                ![r].appended =
                                   @ \o SubSeq(c1.step_instances, Len(c.step_instances) + 1,
                                               Len(c1.step_instances))]
  /\ UNCHANGED <<gens, genOrigin, overlap, traceVars, fixedVars, stepVars, padVars, displayVars>>

\* the trace function returned: generate returns ctx.get_witness()
GenReturn(r) ==
  /\ runs[r].state = "running"
  /\ runs[r].ops = <<>>
  /\ runs' = [runs EXCEPT ![r].state = "done",
                          ![r].result = GenerateResult(genCtx[CtxSlot(r)])]
  /\ UNCHANGED <<gens, genOrigin, genCtx, overlap,
                 traceVars, fixedVars, stepVars, padVars, displayVars>>

\* TraceGenerator::default() or TraceGenerator::new(trace, num_steps)
InitGen ==
  /\ \/ genOrigin = "default" /\ gens = <<GeneratorDefault>>
     \/ /\ genOrigin = "new"
        /\ gens \in {<<GeneratorNew(t, n)>> : t \in TraceFns, n \in 0..MaxSteps}
  /\ runs = [r \in Runs |-> IdleRun]
  /\ genCtx = [r \in Runs |-> TraceContextNew(0)]
  /\ overlap = FALSE

NextGen ==
  \/ GenClone
  \/ \E r \in Runs, args \in Args : GenBegin(r, args)
  \/ \E r \in Runs : GenOp(r)
  \/ \E r \in Runs : GenReturn(r)

InitGenSpec == IdleTrace /\ IdleFixed /\ IdleStep /\ IdlePad /\ InitGen /\ IdleDisplay

SpecGen == InitGenSpec /\ [][NextGen]_vars

\* ------------------------------------------- Display for TraceWitness
\* usize::checked_ilog10: None for 0, else floor(log10(n))
RECURSIVE ilog10(_)
ilog10(n) == IF n < 10 THEN 0 ELSE 1 + ilog10(n \div 10)

checked_ilog10(n) ==
  IF n = 0 THEN [some |-> FALSE, v |-> 0] ELSE [some |-> TRUE, v |-> ilog10(n)]

\* Option::unwrap_or
unwrap_or(opt, default) == IF opt.some THEN opt.v ELSE default

\* a width without the extra leading zero
DecimalWidthNoExtra(len) == unwrap_or(checked_ilog10(len), 0) + 1

\* assignments.len().checked_ilog10().unwrap_or(0) + 2
decimal_width(len) == unwrap_or(checked_ilog10(len), 0) + 2

DigitChars == <<"0", "1", "2", "3", "4", "5", "6", "7", "8", "9">>

\* the decimal text of a usize or of a uuid ({} in the format string)
RECURSIVE Decimal(_)
Decimal(n) ==
  IF n < 10 THEN <<DigitChars[n + 1]>>
  ELSE Decimal(n \div 10) \o <<DigitChars[(n % 10) + 1]>>

\* {:0>width$}: right-aligned, filled with "0" up to width, never cut
PadLeftZero(text, width) ==
  IF Len(text) >= width THEN text
  ELSE [i \in 1..(width - Len(text)) |-> "0"] \o text

\* one writeln!: the index field, the uuid between parentheses, and the
\* "key = value, " items in the order the HashMap yields them (any order)
FmtLine(i, step_instance) ==
  [index |-> PadLeftZero(Decimal(i), decimal_width(Cardinality(step_instance.assignments))),
   uuid |-> <<"(">> \o Decimal(step_instance.step_type_uuid) \o <<")">>,
   items |-> {[queriable |-> e.k, value |-> e.v] : e \in step_instance.assignments}]

\* fmt: one line per step instance, enumerate() from 0
FmtWitness(step_instances) ==
  [i \in 1..Len(step_instances) |-> FmtLine(i - 1, step_instances[i])]

\* the assignment counts of the rows that are displayed
AssignCounts == {0, 1, 9, 10, 11, 99, 100}

\* a step instance holding c assignments
InstanceWith(uuid, c) ==
  [step_type_uuid |-> uuid,
   assignments |-> {[k |-> [kind |-> "Internal", id |-> j], v |-> ZERO] : j \in 1..c}]

\* the numbers of rows a padding left in the witness before the rows pushed
PaddedRows == {0, 10, 100}

\* a witness of padded rows that hold no assignment
InitDisplay ==
  /\ shown \in {[i \in 1..p |-> StepInstanceNew(9)] : p \in PaddedRows}
  /\ rendered = <<>>
  /\ formatted = FALSE

\* a row with c assignments is pushed onto step_instances
DisplayPush(uuid, c) ==
  /\ ~formatted
  /\ \E p \in PaddedRows : Len(shown) >= p /\ Len(shown) < p + MaxShown
  /\ shown' = Append(shown, InstanceWith(uuid, c))
  /\ UNCHANGED <<rendered, formatted, traceVars, fixedVars, stepVars, padVars, genVars>>

\* format!("{}", witness)
Fmt ==
  /\ ~formatted
  /\ rendered' = FmtWitness(shown)
  /\ formatted' = TRUE
  /\ UNCHANGED <<shown, traceVars, fixedVars, stepVars, padVars, genVars>>

NextDisplay ==
  \/ \E uuid \in {9, 10}, c \in AssignCounts : DisplayPush(uuid, c)
  \/ Fmt

InitDisplaySpec == IdleTrace /\ IdleFixed /\ IdleStep /\ IdlePad /\ IdleGen /\ InitDisplay

SpecDisplay == InitDisplaySpec /\ [][NextDisplay]_vars

\* ------------------------------------------- FixedGenContext operations
\* usize offsets a caller may pass: in range and past the end
Offsets == 0..MaxFixedSteps

\* ctx.assign(offset, lhs, rhs).  A panic ends the run: the state it leaves
\* is the context at the moment of the abort, and no call follows it.
Assign(offset, lhs, rhs) ==
  LET r == FixedAssign(assignments, fixed_num_steps, offset, lhs, rhs) IN
  /\ fixedCtx = "Building"
  /\ outcome \in {"none", "ok"}
  /\ r.outcome = "ok" => Len(fixedLog) < MaxFixedCalls
  /\ assignments' = r.assignments
  /\ outcome' = r.outcome
  /\ fixedCall' = [offset |-> offset, lhs |-> lhs, rhs |-> rhs]
  /\ fixedBefore' = assignments
  /\ fixedLog' = IF r.outcome = "ok"
                   THEN Append(fixedLog, [offset |-> offset, lhs |-> lhs, rhs |-> rhs])
                   ELSE fixedLog
  /\ UNCHANGED <<fixed_num_steps, fixedCtx, fixedReturned, traceVars, stepVars, restVars>>

\* ctx.get_assignments(): consumes the context and hands the mapping out
GetAssignments ==
  /\ fixedCtx = "Building"
  /\ outcome \in {"none", "ok"}
  /\ fixedCtx' = AfterGet
  /\ fixedReturned' = assignments
  /\ UNCHANGED <<fixed_num_steps, assignments, fixedCall, outcome, fixedBefore, fixedLog,
                 traceVars, stepVars, restVars>>

\* the signal references assign is called with: one of each fixed kind and
\* one of a non-fixed kind
FixedInputs ==
  {q \in Queriables : q.kind \in FixedKinds /\ q.id = 1}
    \cup {[kind |-> "Halo2AdviceQuery", id |-> 1]}

\* the values assign is called with: zero and a value that is not zero
FixedValues == {ZERO, 1}

NextFixed ==
  \/ \E offset \in Offsets, lhs \in FixedInputs, rhs \in FixedValues : Assign(offset, lhs, rhs)
  \/ GetAssignments

InitFixedSpec == IdleTrace /\ InitFixed /\ IdleStep /\ IdleRest

SpecFixed == InitFixedSpec /\ [][NextFixed]_vars

\* assign called with a signal reference of any kind, on a fresh context and
\* after the calls before it
AssignAnyKind(offset, lhs, rhs) ==
  /\ Len(fixedLog) < MaxKindCalls
  /\ Assign(offset, lhs, rhs)

NextKind == \E offset \in Offsets, lhs \in Queriables, rhs \in Values : AssignAnyKind(offset, lhs, rhs)

SpecKind == InitFixedSpec /\ [][NextKind]_vars

\* ------------------------------------------------- both contexts' lives
\* a TraceContext and a FixedGenContext, each taken from construction to
\* its getter; the data passed is kept small
NextLife ==
  \/ \E step \in {HNop, HOne} : Add(step, 1)
  \/ Padding(HNop, [fn |-> "const", v |-> 0])
  \/ GetWitness
  \/ \E offset \in Offsets, lhs \in {q \in FixedInputs : q.kind # "Halo2FixedQuery"} :
       Assign(offset, lhs, 1)
  \/ GetAssignments

InitLife == InitTrace /\ InitFixed /\ IdleStep /\ IdleRest

SpecLife == InitLife /\ [][NextLife]_vars

\* ---------------------------------------------- StepInstance operations
\* instance.assign(lhs, rhs)
InstanceAssign(lhs, rhs) ==
  /\ Len(assignLog) < MaxAssigns
  /\ instance' = StepAssign(instance, lhs, rhs)
  /\ assignLog' = Append(assignLog, [lhs |-> lhs, rhs |-> rhs])
  /\ UNCHANGED <<traceVars, fixedVars, restVars>>

NextStep == \E lhs \in Queriables, rhs \in Values : InstanceAssign(lhs, rhs)

InitStepSpec == IdleTrace /\ IdleFixed /\ InitStep /\ IdleRest

SpecStep == InitStepSpec /\ [][NextStep]_vars

\* ------------------------------------------------------------ properties
Max(S) == CHOOSE x \in S : \A y \in S : y <= x

\* C1: a padding call that starts with k < num_steps rows leaves exactly
\* num_steps rows, and its first k rows are the rows it started with, in
\* the same order.
C1_PaddingFillsAndKeepsPrefix ==
  (lastOp = "padding" /\ Len(before) < num_steps) =>
    /\ Len(witness) = num_steps
    /\ SubSeq(witness, 1, Len(before)) = before

\* a padding that started below the target with a row that holds assignments
C1_Witness ==
  /\ lastOp = "padding"
  /\ Len(before) >= 1
  /\ Len(before) < num_steps
  /\ before[1].assignments # {}

\* C2 as stated: after padding the witness has exactly num_steps rows,
\* whatever number of add calls came before.
C2_LengthAlwaysTarget == lastOp = "padding" => Len(witness) = num_steps

\* C2, amended: after padding the witness has num_steps rows when it had at
\* most num_steps before, and the rows it had before when it had more.
C2_LengthIsMaxOfTargetAndBefore ==
  lastOp = "padding" =>
    Len(witness) = (IF Len(before) <= num_steps THEN num_steps ELSE Len(before))

\* a padding called on a context that explicit adds took past the target
C2_Witness ==
  /\ lastOp = "padding"
  /\ num_steps >= 1
  /\ Len(before) > num_steps

\* C3: a padding call that starts with num_steps rows or more changes no
\* row and calls neither the callback nor the thunk.
C3_PaddingNoOpAtOrPastTarget ==
  (lastOp = "padding" /\ Len(before) >= num_steps) =>
    /\ witness = before
    /\ wgCalls = 0
    /\ thunkCalls = 0

\* a padding on a context holding exactly its target of non-empty rows
C3_Witness ==
  /\ lastOp = "padding"
  /\ num_steps >= 2
  /\ Len(before) = num_steps
  /\ before[1].assignments # {}

\* C10: every row carries the uuid of the handler passed to the add or
\* padding call that made it.
C10_RowsCarryHandlerIdentity ==
  /\ Len(makers) = Len(witness)
  /\ \A i \in 1..Len(witness) : witness[i].step_type_uuid = makers[i]

\* one add with a handler, then a padding with another that made two rows
C10_Witness ==
  /\ lastOp = "padding"
  /\ Len(before) = 1
  /\ Len(witness) >= 3
  /\ witness[1].step_type_uuid # witness[2].step_type_uuid
  /\ witness[2].step_type_uuid = witness[3].step_type_uuid

\* the indices of the returned assign calls made to (q, o)
WritesTo(q, o) ==
  {i \in 1..Len(fixedLog) : fixedLog[i].lhs = q /\ fixedLog[i].offset = o}

\* C4: every signal assigned at least once has one entry; at each offset
\* below num_steps it holds the value of the last assign to that signal
\* and offset, and zero where no assign was made.
C4_LastWriteWinsZeroElsewhere ==
  \A q \in {fixedLog[i].lhs : i \in 1..Len(fixedLog)} :
    /\ Cardinality({e \in assignments : e.k = q}) = 1
    /\ \A o \in 0..(fixed_num_steps - 1) :
         Get(assignments, q)[o + 1] =
           (IF WritesTo(q, o) = {} THEN ZERO ELSE fixedLog[Max(WritesTo(q, o))].rhs)

\* a signal written twice at one offset with different values, the first
\* of them not zero, and never written at another offset
C4_Witness ==
  \E i, j \in 1..Len(fixedLog) :
    /\ i < j
    /\ fixedLog[i].lhs = fixedLog[j].lhs
    /\ fixedLog[i].offset = fixedLog[j].offset
    /\ fixedLog[i].rhs # fixedLog[j].rhs
    /\ fixedLog[i].rhs # ZERO
    /\ \E o \in 0..(fixed_num_steps - 1) : WritesTo(fixedLog[i].lhs, o) = {}

\* C5: every stored sequence has length num_steps, and a sequence that was
\* there before the last assign call has the length it had.
C5_SequencesHaveTargetLength ==
  /\ \A e \in assignments : Len(e.v) = fixed_num_steps
  /\ \A e \in assignments :
       ContainsKey(fixedBefore, e.k) => Len(e.v) = Len(Get(fixedBefore, e.k))

\* an assign that returned on a signal already present, beside another signal
C5_Witness ==
  /\ outcome = "ok"
  /\ fixed_num_steps >= 2
  /\ ContainsKey(fixedBefore, fixedCall.lhs)
  /\ Cardinality(assignments) >= 2

\* C6: an assign with a signal reference of a non-fixed kind panics with
\* the mapping as it was before the call, whatever the offset and value.
C6_NonFixedAbortsUnchanged ==
  (outcome # "none" /\ fixedCall.lhs.kind \notin FixedKinds) =>
    /\ outcome = "panic_non_fixed"
    /\ assignments = fixedBefore

\* a non-fixed assign with an out-of-range offset on a non-empty mapping
C6_Witness ==
  /\ outcome = "panic_non_fixed"
  /\ fixedCall.offset >= fixed_num_steps
  /\ fixedCall.rhs # ZERO
  /\ assignments # {}

\* C7: an assign with a fixed-kind signal reference and an offset not below
\* num_steps panics with the mapping as it was before the call.
C7_OutOfRangeAbortsUnchanged ==
  (/\ outcome # "none"
   /\ fixedCall.lhs.kind \in FixedKinds
   /\ fixedCall.offset >= fixed_num_steps) =>
    /\ outcome = "panic_bounds"
    /\ assignments = fixedBefore

\* an out-of-range assign of a signal seen for the first time, on a mapping
\* that holds another signal
C7_Witness ==
  /\ outcome = "panic_bounds"
  /\ fixedCall.lhs.kind \in FixedKinds
  /\ ~ContainsKey(fixedBefore, fixedCall.lhs)
  /\ fixedBefore # {}

\* C8: every key of the mapping is of a fixed kind.
C8_KeysAreFixedKind == \A e \in assignments : e.k.kind \in FixedKinds

\* a mapping with two keys, right after an assign of a non-fixed signal
C8_Witness ==
  /\ Cardinality(assignments) >= 2
  /\ outcome # "none"
  /\ fixedCall.lhs.kind \notin FixedKinds

\* the indices of the assign calls made to signal q of the instance
AssignsTo(q) == {i \in 1..Len(assignLog) : assignLog[i].lhs = q}

\* C9: the instance holds exactly one entry per signal reference assigned,
\* of any kind, and each entry holds the value of the last assign to it.
C9_OneEntryPerKeyLastValue ==
  /\ Keys(instance.assignments) = {assignLog[i].lhs : i \in 1..Len(assignLog)}
  /\ \A q \in Keys(instance.assignments) :
       /\ Cardinality({e \in instance.assignments : e.k = q}) = 1
       /\ Get(instance.assignments, q) = assignLog[Max(AssignsTo(q))].rhs

\* a signal assigned twice with different values, beside a signal of
\* another kind
C9_Witness ==
  /\ \E i, j \in 1..Len(assignLog) :
       /\ i < j
       /\ assignLog[i].lhs = assignLog[j].lhs
       /\ assignLog[i].rhs # assignLog[j].rhs
  /\ \E i, j \in 1..Len(assignLog) :
       /\ assignLog[i].lhs.kind \in FixedKinds
       /\ assignLog[j].lhs.kind \notin FixedKinds

\* C15: an add call appends exactly one row: the length grows by 1, the
\* rows that were there keep index and content, num_steps is unchanged.
C15_AddAppendsOneRow ==
  [][lastOp' = "add" =>
       /\ Len(witness') = Len(witness) + 1
       /\ SubSeq(witness', 1, Len(witness)) = witness
       /\ num_steps' = num_steps]_vars

\* an add on a context that already holds its target of rows, or more
C15_Witness ==
  /\ lastOp = "add"
  /\ num_steps >= 1
  /\ Len(before) >= num_steps
  /\ before[1].assignments # {}

\* C16: an assign that returns changes position offset of lhs's sequence
\* only: the keys are the former keys and lhs, the other positions of lhs
\* keep their value (zero for a new key), the entries of other keys and
\* num_steps are unchanged.
C16_AssignChangesOnePosition ==
  [][fixedLog' # fixedLog =>
       LET q == fixedCall'.lhs
           o == fixedCall'.offset
       IN /\ Keys(assignments') = Keys(assignments) \cup {q}
          /\ Cardinality({e \in assignments' : e.k = q}) = 1
          /\ ContainsKey(assignments, q) =>
               Len(Get(assignments', q)) = Len(Get(assignments, q))
          /\ \A i \in 1..Len(Get(assignments', q)) :
               i # o + 1 =>
                 Get(assignments', q)[i] =
                   (IF ContainsKey(assignments, q) THEN Get(assignments, q)[i] ELSE ZERO)
          /\ {e \in assignments' : e.k # q} = {e \in assignments : e.k # q}
          /\ fixed_num_steps' = fixed_num_steps]_vars

\* an assign to a signal already present whose other position holds a
\* value that is not zero, beside another signal
C16_Witness ==
  /\ outcome = "ok"
  /\ ContainsKey(fixedBefore, fixedCall.lhs)
  /\ \E i \in 1..fixed_num_steps :
       i # fixedCall.offset + 1 /\ Get(assignments, fixedCall.lhs)[i] # ZERO

\* the kinds of the signal references that got past the kind check
PassedKinds ==
  {e.k.kind : e \in assignments}
    \cup (IF outcome \in {"ok", "panic_bounds"} THEN {fixedCall.lhs.kind} ELSE {})

\* C18 as stated: there is one kind such that assign passes its kind check
\* for that kind and panics for every other.
C18_ExactlyOneFixedKind ==
  \E K \in FixedKinds \cup NonFixedKinds :
    /\ PassedKinds \subseteq {K}
    /\ outcome = "panic_non_fixed" => fixedCall.lhs.kind # K

\* C18, amended: assign passes its kind check for the kinds Fixed and
\* Halo2FixedQuery and panics for every other kind.
C18_TwoFixedKinds ==
  /\ PassedKinds \subseteq {"Fixed", "Halo2FixedQuery"}
  /\ outcome # "none" =>
       (outcome = "panic_non_fixed" <=>
          fixedCall.lhs.kind \notin {"Fixed", "Halo2FixedQuery"})

\* both a Fixed and a Halo2FixedQuery signal got past the kind check
C18_Witness == PassedKinds = {"Fixed", "Halo2FixedQuery"}

\* max(0, n - k)
Missing(n, k) == IF n > k THEN n - k ELSE 0

\* C12: padding calls args_fn once per row it appends, before that row is
\* built, and builds the i-th appended row from the i-th value returned;
\* when it returns it has called args_fn max(0, num_steps - k) times.
C12_ThunkCalledFreshPerRow ==
  pad_pc # "idle" =>
    LET k == Len(before) IN
    /\ thunkCalls = Len(thunkLog)
    /\ Len(witness) - k = Len(thunkLog) - (IF pad_pc = "add" THEN 1 ELSE 0)
    /\ \A i \in 1..Len(thunkLog) : thunkLog[i] = ThunkValue(padFn, i - 1)
    /\ \A i \in 1..(Len(witness) - k) :
         witness[k + i] = RunWG(padStep, StepInstanceNew(padStep.uuid), thunkLog[i])
    /\ pad_pc = "done" => Len(thunkLog) = Missing(num_steps, k)

\* a padding that returned after two rows built from different thunk values
C12_Witness ==
  /\ pad_pc = "done"
  /\ Len(thunkLog) >= 2
  /\ thunkLog[1] # thunkLog[2]
  /\ witness[Len(witness)] # witness[Len(witness) - 1]

\* C17: a padding call that was entered returns; it makes exactly
\* max(0, num_steps - k) add iterations and each adds one row.
C17_PaddingTerminates ==
  /\ [](pad_pc # "idle" => Len(witness) = Len(before) + wgCalls)
  /\ [](pad_pc = "done" => wgCalls = Missing(num_steps, Len(before)))
  /\ (pad_pc # "idle") ~> (pad_pc = "done")

\* a padding that returned after two iterations or more on top of explicit rows
C17_Witness ==
  /\ pad_pc = "done"
  /\ Len(before) >= 1
  /\ wgCalls >= 2

RECURSIVE RunOps(_, _)
\* the context after the calls ops, made one after the other
RunOps(c, ops) == IF ops = <<>> THEN c ELSE RunOps(ApplyOp(c, Head(ops)), Tail(ops))

\* what generate returns when nothing else runs
AloneResult(g, args) ==
  RunOps([step_instances |-> <<>>, num_steps |-> g.num_steps],
         TraceOps(g.trace, args)).step_instances

\* C11: generate on a generator and on its clone, in any order or
\* interleaved, returns for each call the witness the call returns when run
\* alone; clone and generate leave trace and num_steps of both as they were.
C11_GenerateCallsIndependent ==
  /\ [](\A r \in 1..Len(gens) :
         /\ gens[r] = gens[1]
         /\ runs[r].state = "done" => runs[r].result = AloneResult(gens[r], runs[r].args))
  /\ [][\A r \in 1..Len(gens) : gens'[r] = gens[r]]_vars

\* both calls returned, with different arguments and different witnesses,
\* one entered while the other was running
C11_Witness ==
  /\ Len(gens) = 2
  /\ overlap
  /\ runs[1].state = "done"
  /\ runs[2].state = "done"
  /\ runs[1].args # runs[2].args
  /\ runs[1].result # runs[2].result
  /\ Len(runs[1].result) >= 2

\* C14: a default generator has num_steps 0 and a trace function that makes
\* no call on the context: generate returns no row, whatever the argument.
C14_DefaultGeneratesEmpty ==
  genOrigin = "default" =>
    \A r \in 1..Len(gens) :
      /\ gens[r].num_steps = 0
      /\ genCtx[r].step_instances = <<>>
      /\ runs[r].state = "done" => runs[r].result = <<>>

\* generate returned on a default generator, called with argument 1
C14_Witness ==
  /\ genOrigin = "default"
  /\ runs[1].state = "done"
  /\ runs[1].args = 1

\* C19: generate makes the context empty with the generator's num_steps and
\* returns the rows the trace function's calls appended, in that order.
C19_GenerateReturnsAppendedRows ==
  \A r \in 1..Len(gens) :
    /\ runs[r].state # "idle" => genCtx[r].num_steps = gens[r].num_steps
    /\ (runs[r].state = "running" /\ runs[r].appended = <<>>) =>
         genCtx[r].step_instances = <<>>
    /\ runs[r].state = "done" => runs[r].result = runs[r].appended

\* generate returned more rows than num_steps: the trace function made two
\* add calls and no padding call
C19_Witness ==
  \E r \in 1..Len(gens) :
    /\ runs[r].state = "done"
    /\ gens[r].trace = "adds"
    /\ gens[r].num_steps = 1
    /\ Len(runs[r].result) = 2

\* 10^k
RECURSIVE Pow10(_)
Pow10(k) == IF k = 0 THEN 1 ELSE 10 * Pow10(k - 1)

\* floor(log10(m)) for m >= 1
FloorLog10(m) == CHOOSE k \in 0..6 : Pow10(k) <= m /\ m < Pow10(k + 1)

\* the number a text of decimal digits stands for
RECURSIVE ParseDecimal(_)
ParseDecimal(text) ==
  IF text = <<>> THEN 0
  ELSE 10 * ParseDecimal(SubSeq(text, 1, Len(text) - 1))
         + (CHOOSE d \in 0..9 : DigitChars[d + 1] = text[Len(text)])

\* C20: fmt writes one line per row, in row order from index 0; the index
\* is zero-padded to width floor(log10(max(c, 1))) + 2, c the number of
\* assignments of the row, and is followed by the uuid in parentheses.
C20_IndexWidthFromAssignmentCount ==
  formatted =>
    /\ Len(rendered) = Len(shown)
    /\ \A i \in 1..Len(shown) :
         LET c == Cardinality(shown[i].assignments)
             w == FloorLog10(IF c > 1 THEN c ELSE 1) + 2
             text == rendered[i].index
         IN /\ \A j \in 1..Len(text) : \E d \in 1..10 : text[j] = DigitChars[d]
            /\ ParseDecimal(text) = i - 1
            /\ Len(text) >= w
            /\ Len(text) > w => text[1] # "0"
            /\ rendered[i].uuid =
                 <<"(">> \o Decimal(shown[i].step_type_uuid) \o <<")">>
            /\ Cardinality(rendered[i].items) = c

\* two rows at indices 10 and 11: the one with ten assignments or more
\* printed on 3 characters with a leading zero, the other on 2
C20_Witness ==
  /\ formatted
  /\ \E i, j \in 11..Len(rendered) :
       /\ Len(rendered[i].index) = 3
       /\ rendered[i].index[1] = "0"
       /\ Cardinality(shown[i].assignments) >= 10
       /\ Len(rendered[j].index) = 2
       /\ Cardinality(shown[j].assignments) >= 1

\* C13: each context is Building or Finalized; rows and entries change in
\* Building only; a context becomes Finalized by its getter only, which
\* hands out what the context holds; a Finalized context takes no call,
\* stays Finalized, and what it handed out does not change.
C13_BuildingThenFinalized ==
  /\ [](ctx \in {"Building", "Finalized"} /\ fixedCtx \in {"Building", "Finalized"})
  /\ [](lastOp = "get_witness" => ctx = "Finalized")
  /\ [][ctx = "Finalized" => UNCHANGED traceVars]_vars
  /\ [][fixedCtx = "Finalized" => UNCHANGED fixedVars]_vars
  /\ [][ctx # ctx' => (ctx = "Building" /\ lastOp' = "get_witness" /\ returned' = witness
                        /\ witness' = witness)]_vars
  /\ [][fixedCtx # fixedCtx' =>
          (fixedCtx = "Building" /\ fixedReturned' = assignments
           /\ assignments' = assignments)]_vars
  /\ [][fixedReturned # fixedReturned' => fixedCtx' = "Finalized"]_vars
  /\ [][returned # returned' => ctx' = "Finalized"]_vars

\* both contexts consumed by their getters with something to hand out
C13_Witness ==
  /\ ctx = "Finalized"
  /\ fixedCtx = "Finalized"
  /\ Len(returned) > num_steps
  /\ Cardinality(fixedReturned) >= 1

====
